---------------------------- MODULE Spec2Model ----------------------------
(***************************************************************************)
(* A model of the JMDict XML wrapper (src/jmdict/xml/models.py and         *)
(* src/jmdict/xml/engine.py): the element builders, the match predicates,  *)
(* the JMDict container (filter, as_text, count) and the JMDictEngine      *)
(* queries (all, search_kanji, search_reading, search_glossary).           *)
(*                                                                         *)
(* Text is a sequence of one-character strings.  An optional value (a      *)
(* Python value that may be None) is a sequence of length 0 (None) or 1.   *)
(***************************************************************************)
EXTENDS Integers, Sequences, FiniteSets, TLC

VARIABLES
    xml_soup,   \* JMDictEngine.xml_soup: the parsed document tree
    self,       \* the receiver of the call: an element object or a JMDict
    args,       \* the arguments of the call
    op,         \* the name of the last operation called ("" before any call)
    ret         \* the outcome of the last call

vars == <<xml_soup, self, args, op, ret>>

(***************************************************************************)
(* Bounds of the model.                                                    *)
(***************************************************************************)
MaxLen == 2          \* longest text drawn as a match_value operand
MaxItems == 2        \* an object is updated while its lists hold at most this many
MaxDocEntries == 2   \* most entries in a document the engine is built on
MaxEntries == 3      \* most entries in a container that is filtered or rendered
MaxLimit == 1        \* largest limit given to filter
MaxNegative == 2     \* most negative index given to as_text

(***************************************************************************)
(* Python values.                                                          *)
(***************************************************************************)
None == <<>>
Some(x) == <<x>>
IsNone(o) == o = <<>>
Val(o) == o[1]

\* The outcome of a call: a returned value or a raised exception.
NoCall == [kind |-> "none", exc |-> "", msg |-> "", val |-> <<>>]
Return(v) == [kind |-> "return", exc |-> "", msg |-> "", val |-> v]
Raise(e, m) == [kind |-> "raise", exc |-> e, msg |-> m, val |-> <<>>]

Chars == {"a", "A", "b"}
Strings(n) == UNION {[1..k -> Chars] : k \in 0..n}

\* str.lower(), character by character
LowerChar(c) == IF c = "A" THEN "a" ELSE IF c = "B" THEN "b" ELSE c
Lower(s) == [i \in 1..Len(s) |-> LowerChar(s[i])]

\* Python's `a in b` on strings: a is a contiguous substring of b
Contains(b, a) ==
    \E i \in 0..(Len(b) - Len(a)) : \A j \in 1..Len(a) : b[i + j] = a[j]

(***************************************************************************)
(* MatchValueMixin.match_value.  self.value is None on an element that was *)
(* constructed without a node: None has no lower(), and `value in None`    *)
(* is a TypeError.                                                         *)
(***************************************************************************)
match_value_lower_query_only(elem, value, exact, case_sensitive) ==
    IF IsNone(elem.value)
    THEN IF ~case_sensitive THEN Raise("AttributeError", "lower")
         ELSE IF exact THEN Return(FALSE)
         ELSE Raise("TypeError", "in")
    ELSE IF ~case_sensitive
    THEN IF exact THEN Return(Lower(value) = Val(elem.value))
         ELSE Return(Contains(Val(elem.value), Lower(value)))
    ELSE IF exact THEN Return(value = Val(elem.value))
         ELSE Return(Contains(Val(elem.value), value))

match_value(elem, value, exact, case_sensitive) ==
    IF IsNone(elem.value)
    THEN IF ~case_sensitive THEN Raise("AttributeError", "lower")
         ELSE IF exact THEN Return(FALSE)
         ELSE Raise("TypeError", "in")
    ELSE IF ~case_sensitive
    THEN IF exact THEN Return(Lower(value) = Lower(Val(elem.value)))
         ELSE Return(Contains(Lower(Val(elem.value)), Lower(value)))
    ELSE IF exact THEN Return(value = Val(elem.value))
         ELSE Return(Contains(Val(elem.value), value))

(***************************************************************************)
(* The parsed document (bs4): a node has a tag name, its own string, an    *)
(* ordered attribute dictionary (a sequence of <<key, value>> pairs) and   *)
(* ordered children.  A node of the document is addressed by its path, the *)
(* sequence of child indices from the root.                                *)
(***************************************************************************)
Leaf(name, text) ==
    [name |-> name, text |-> text, attrs |-> <<>>, children |-> <<>>]
LeafA(name, text, attrs) ==
    [name |-> name, text |-> text, attrs |-> attrs, children |-> <<>>]
Elem(name, children) ==
    [name |-> name, text |-> <<>>, attrs |-> <<>>, children |-> children]

\* the list whose items are f[1], ..., f[n], each computed once
List(f) == <<>> \o f

\* the least member of a set of positive numbers, 0 when the set is empty,
\* and the greatest member of a non-empty set of numbers
Least(S) == IF S = {} THEN 0 ELSE CHOOSE i \in S : \A j \in S : i <= j
Greatest(S) == CHOOSE i \in S : \A j \in S : j <= i

\* the concatenation of the first k sequences of ss
RECURSIVE FlattenTo(_, _)
FlattenTo(ss, k) == IF k = 0 THEN <<>> ELSE FlattenTo(ss, k - 1) \o ss[k]

Flatten(seqs) == FlattenTo(seqs, Len(seqs))

RECURSIVE NodeAt(_, _)
NodeAt(root, path) ==
    IF path = <<>> THEN root
    ELSE NodeAt(root.children[Head(path)], Tail(path))

\* the paths of the descendants of the node at path p, in document order,
\* starting with its i-th child
RECURSIVE DescFrom(_, _, _)
DescFrom(n, p, i) ==
    IF i > Len(n.children) THEN <<>>
    ELSE <<Append(p, i)>> \o DescFrom(n.children[i], Append(p, i), 1)
                          \o DescFrom(n, p, i + 1)

\* those of the paths that lead to a node with the tag name
RECURSIVE Named(_, _, _)
Named(root, paths, name) ==
    IF paths = <<>> THEN <<>>
    ELSE (IF NodeAt(root, Head(paths)).name = name THEN <<Head(paths)>>
          ELSE <<>>) \o Named(root, Tail(paths), name)

NodesAt(root, paths) == List([i \in 1..Len(paths) |-> NodeAt(root, paths[i])])

\* Tag.find_all(name): the descendants with that tag name, document order
FindAllPaths(root, p, name) ==
    Named(root, DescFrom(NodeAt(root, p), p, 1), name)

find_all(item, name) == NodesAt(item, FindAllPaths(item, <<>>, name))

\* item.<name>, i.e. Tag.find(name): the first such descendant, or None
First(ns) == IF ns = <<>> THEN None ELSE Some(ns[1])
Find(item, name) == First(find_all(item, name))

\* Tag.find_parent(name): the nearest proper ancestor with that tag name,
\* None when there is none
AncestorsNamed(root, p, name) ==
    {k \in 0..(Len(p) - 1) : NodeAt(root, SubSeq(p, 1, k)).name = name}
find_parent(root, p, name) ==
    IF AncestorsNamed(root, p, name) = {} THEN None
    ELSE Some(SubSeq(p, 1, Greatest(AncestorsNamed(root, p, name))))

\* Tag.text: the node's strings, document order
RECURSIVE Text(_)
Text(n) == n.text \o Flatten([i \in 1..Len(n.children) |-> Text(n.children[i])])

Texts(ns) == List([i \in 1..Len(ns) |-> Text(ns[i])])

\* dict.update(other) on insertion-ordered dictionaries
DictKeys(d) == {d[i][1] : i \in 1..Len(d)}
DictSet(d, kv) ==
    IF kv[1] \in DictKeys(d)
    THEN [i \in 1..Len(d) |-> IF d[i][1] = kv[1] THEN kv ELSE d[i]]
    ELSE Append(d, kv)
RECURSIVE DictUpdate(_, _)
DictUpdate(d, other) ==
    IF other = <<>> THEN d
    ELSE DictUpdate(DictSet(d, Head(other)), Tail(other))

\* int(text) on a decimal literal
Digits == <<"0", "1", "2", "3", "4", "5", "6", "7", "8", "9">>
IsNumeric(s) ==
    s # <<>> /\ \A i \in 1..Len(s) : \E d \in 1..Len(Digits) : Digits[d] = s[i]
DigitVal(c) == (CHOOSE d \in 1..Len(Digits) : Digits[d] = c) - 1
RECURSIVE ParseInt(_)
ParseInt(s) ==
    IF s = <<>> THEN 0
    ELSE 10 * ParseInt(SubSeq(s, 1, Len(s) - 1)) + DigitVal(s[Len(s)])

(***************************************************************************)
(* Element objects, as their constructors leave them before any update.    *)
(***************************************************************************)
NewKanjiElement ==
    [cls |-> "KanjiElement", value |-> None, info |-> <<>>, priority |-> <<>>]
NewReadingElement ==
    [cls |-> "ReadingElement", value |-> None, no_kanji |-> None,
     reading |-> <<>>, info |-> <<>>, priority |-> <<>>]
NewLanguageSourceElement ==
    [cls |-> "LanguageSourceElement", value |-> None,
     attrs |-> << <<"xml:lang", None>>, <<"ls_type", None>>,
                  <<"ls_wasei", None>> >>]
NewGlossaryElement ==
    [cls |-> "GlossaryElement", value |-> None,
     attrs |-> << <<"xml:lang", None>>, <<"g_type", None>>,
                  <<"g_gend", None>> >>]
NewSenseElement ==
    [cls |-> "SenseElement", kanji |-> <<>>, reading |-> <<>>, xref |-> <<>>,
     antonym |-> <<>>, part_of_speech |-> <<>>, field |-> <<>>,
     misc |-> <<>>, info |-> <<>>, dialect |-> <<>>, language_src |-> <<>>,
     glossary |-> <<>>]
NewEntryElement ==
    [cls |-> "EntryElement", sequence |-> None, kanji |-> <<>>,
     reading |-> <<>>, sense |-> <<>>]

Classes == {"KanjiElement", "ReadingElement", "LanguageSourceElement",
            "GlossaryElement", "SenseElement", "EntryElement"}

New(cls) ==
    CASE cls = "KanjiElement" -> NewKanjiElement
      [] cls = "ReadingElement" -> NewReadingElement
      [] cls = "LanguageSourceElement" -> NewLanguageSourceElement
      [] cls = "GlossaryElement" -> NewGlossaryElement
      [] cls = "SenseElement" -> NewSenseElement
      [] cls = "EntryElement" -> NewEntryElement

\* the class attribute `tag`
TagOf(cls) ==
    CASE cls = "KanjiElement" -> "k_ele"
      [] cls = "ReadingElement" -> "r_ele"
      [] cls = "LanguageSourceElement" -> "lsource"
      [] cls = "GlossaryElement" -> "gloss"
      [] cls = "SenseElement" -> "sense"
      [] cls = "EntryElement" -> "entry"

\* what a builder call leaves: its outcome and the object afterwards
Built(out, obj) == [out |-> out, obj |-> obj]

NoSoup == Elem("[document]", <<>>)

(***************************************************************************)
(* XmlElementDecorators.verify_tag: the wrapper around every update.  The  *)
(* node is given positionally, update(tag), or by keyword,                 *)
(* update(item=tag); it is checked before the decorated body runs.         *)
(***************************************************************************)
\* a wrapper that lets a node of any tag name through
verify_tag_unchecked(obj, item, positional) ==
    IF ~positional /\ IsNone(item)
    THEN Raise("ValueError", "Invalid number of arguments.")
    ELSE IF IsNone(item)
    THEN Raise("ValueError", "Received null input.")
    ELSE Return(None)

\* the wrapper's outcome before it calls the decorated body: the exception
\* it raises, or Return(None) when it goes on to call the body
verify_tag(obj, item, positional) ==
    IF ~positional /\ IsNone(item)
    THEN Raise("ValueError", "Invalid number of arguments.")
    ELSE IF IsNone(item)
    THEN Raise("ValueError", "Received null input.")
    ELSE IF TagOf(obj.cls) # Val(item).name
    THEN Raise("ValueError", "Tag name mismatched")
    ELSE Return(None)

\* a loop `for x in nodes: lst.append(Ctor(x))`, given the constructors'
\* results: the index of the first that raises (0 if none does), the
\* objects appended before it, and the outcome of the loop
FirstRaise(results) ==
    Least({i \in 1..Len(results) : results[i].out.kind = "raise"})
ObjsBefore(results, f) ==
    [i \in 1..(IF f = 0 THEN Len(results) ELSE f - 1) |-> results[i].obj]
Appended(results) == ObjsBefore(results, FirstRaise(results))
OutcomeAt(results, f) == IF f = 0 THEN Return(None) ELSE results[f].out
LoopOutcome(results) == OutcomeAt(results, FirstRaise(results))

\* KanjiElement.update, the decorated body
KanjiSet(obj, item, keb) ==
    IF IsNone(keb)
    THEN Built(Raise("AttributeError", "text"), obj)
    ELSE Built(Return(None),
               [obj EXCEPT !.value = Some(Text(Val(keb))),
                           !.info = @ \o Texts(find_all(item, "ke_inf")),
                           !.priority = @ \o Texts(find_all(item, "ke_pri"))])

KanjiBody(obj, item) == KanjiSet(obj, item, Find(item, "keb"))

KanjiUpdate(obj, item, positional) ==
    IF verify_tag(obj, item, positional).kind = "raise"
    THEN Built(verify_tag(obj, item, positional), obj)
    ELSE KanjiBody(obj, Val(item))

KanjiElement(item) ==
    IF IsNone(item) THEN Built(Return(None), NewKanjiElement)
    ELSE KanjiUpdate(NewKanjiElement, item, TRUE)

\* ReadingElement.update, the decorated body: each loop appends the text of
\* item.re_restr / item.re_inf / item.re_pri, the FIRST such child, once
\* per child found
Repeat(x, n) == [i \in 1..n |-> x]

ReadingLoop(item, name) ==
    IF find_all(item, name) = <<>> THEN <<>>
    ELSE Repeat(Text(Val(Find(item, name))), Len(find_all(item, name)))

ReadingSet(obj, item, reb, nk) ==
    IF IsNone(reb)
    THEN Built(Raise("AttributeError", "text"), obj)
    ELSE Built(Return(None),
               [obj EXCEPT !.value = Some(Text(Val(reb))),
                           !.no_kanji = IF IsNone(nk) THEN @
                                        ELSE Some(Text(Val(nk))),
                           !.reading = @ \o ReadingLoop(item, "re_restr"),
                           !.info = @ \o ReadingLoop(item, "re_inf"),
                           !.priority = @ \o ReadingLoop(item, "re_pri")])

ReadingBody(obj, item) ==
    ReadingSet(obj, item, Find(item, "reb"), Find(item, "re_nokanji"))

ReadingUpdate(obj, item, positional) ==
    IF verify_tag(obj, item, positional).kind = "raise"
    THEN Built(verify_tag(obj, item, positional), obj)
    ELSE ReadingBody(obj, Val(item))

ReadingElement(item) ==
    IF IsNone(item) THEN Built(Return(None), NewReadingElement)
    ELSE ReadingUpdate(NewReadingElement, item, TRUE)

\* LanguageSourceElement.update, the decorated body
LanguageSourceBody(obj, item) ==
    Built(Return(None),
          [obj EXCEPT !.value = Some(Text(item)),
                      !.attrs = DictUpdate(@, item.attrs)])

LanguageSourceUpdate(obj, item, positional) ==
    IF verify_tag(obj, item, positional).kind = "raise"
    THEN Built(verify_tag(obj, item, positional), obj)
    ELSE LanguageSourceBody(obj, Val(item))

LanguageSourceElement(item) ==
    IF IsNone(item) THEN Built(Return(None), NewLanguageSourceElement)
    ELSE LanguageSourceUpdate(NewLanguageSourceElement, item, TRUE)

\* GlossaryElement.update, the decorated body
GlossaryBody(obj, item) ==
    Built(Return(None),
          [obj EXCEPT !.attrs = DictUpdate(@, item.attrs),
                      !.value = Some(Text(item))])

GlossaryUpdate(obj, item, positional) ==
    IF verify_tag(obj, item, positional).kind = "raise"
    THEN Built(verify_tag(obj, item, positional), obj)
    ELSE GlossaryBody(obj, Val(item))

GlossaryElement(item) ==
    IF IsNone(item) THEN Built(Return(None), NewGlossaryElement)
    ELSE GlossaryUpdate(NewGlossaryElement, item, TRUE)

\* SenseElement.update, the decorated body: the text lists, then the
\* lsource loop, then the gloss loop
LanguageSources(ns) ==
    List([i \in 1..Len(ns) |-> LanguageSourceElement(Some(ns[i]))])
Glossaries(ns) ==
    List([i \in 1..Len(ns) |-> GlossaryElement(Some(ns[i]))])

SenseTexts(obj, item) ==
    [obj EXCEPT !.kanji = @ \o Texts(find_all(item, "stagk")),
                !.reading = @ \o Texts(find_all(item, "stagr")),
                !.xref = @ \o Texts(find_all(item, "xref")),
                !.antonym = @ \o Texts(find_all(item, "ant")),
                !.part_of_speech = @ \o Texts(find_all(item, "pos")),
                !.field = @ \o Texts(find_all(item, "field")),
                !.misc = @ \o Texts(find_all(item, "misc")),
                !.info = @ \o Texts(find_all(item, "s_inf")),
                !.dialect = @ \o Texts(find_all(item, "dial"))]

SenseLoops(obj, lrs, grs) ==
    IF FirstRaise(lrs) # 0
    THEN Built(LoopOutcome(lrs),
               [obj EXCEPT !.language_src = @ \o Appended(lrs)])
    ELSE Built(LoopOutcome(grs),
               [obj EXCEPT !.language_src = @ \o Appended(lrs),
                           !.glossary = @ \o Appended(grs)])

SenseBody(obj, item) ==
    SenseLoops(SenseTexts(obj, item),
               LanguageSources(find_all(item, "lsource")),
               Glossaries(find_all(item, "gloss")))

SenseUpdate(obj, item, positional) ==
    IF verify_tag(obj, item, positional).kind = "raise"
    THEN Built(verify_tag(obj, item, positional), obj)
    ELSE SenseBody(obj, Val(item))

SenseElement(item) ==
    IF IsNone(item) THEN Built(Return(None), NewSenseElement)
    ELSE SenseUpdate(NewSenseElement, item, TRUE)

\* EntryElement.update, the decorated body: the sequence number, then the
\* k_ele loop, the r_ele loop and the sense loop
Kanjis(ns) == List([i \in 1..Len(ns) |-> KanjiElement(Some(ns[i]))])
Readings(ns) == List([i \in 1..Len(ns) |-> ReadingElement(Some(ns[i]))])
Senses(ns) == List([i \in 1..Len(ns) |-> SenseElement(Some(ns[i]))])

EntryLoops(obj, krs, rrs, srs) ==
    IF FirstRaise(krs) # 0
    THEN Built(LoopOutcome(krs), [obj EXCEPT !.kanji = @ \o Appended(krs)])
    ELSE IF FirstRaise(rrs) # 0
    THEN Built(LoopOutcome(rrs),
               [obj EXCEPT !.kanji = @ \o Appended(krs),
                           !.reading = @ \o Appended(rrs)])
    ELSE Built(LoopOutcome(srs),
               [obj EXCEPT !.kanji = @ \o Appended(krs),
                           !.reading = @ \o Appended(rrs),
                           !.sense = @ \o Appended(srs)])

EntrySet(obj, item, seq) ==
    IF ~IsNone(seq) /\ ~IsNumeric(Text(Val(seq)))
    THEN Built(Raise("ValueError", "invalid literal for int()"), obj)
    ELSE EntryLoops(IF IsNone(seq) THEN obj
                    ELSE [obj EXCEPT
                            !.sequence = Some(ParseInt(Text(Val(seq))))],
                    Kanjis(find_all(item, "k_ele")),
                    Readings(find_all(item, "r_ele")),
                    Senses(find_all(item, "sense")))

EntryBody(obj, item) == EntrySet(obj, item, Find(item, "ent_seq"))

EntryUpdate(obj, item, positional) ==
    IF verify_tag(obj, item, positional).kind = "raise"
    THEN Built(verify_tag(obj, item, positional), obj)
    ELSE EntryBody(obj, Val(item))

EntryElement(item) ==
    IF IsNone(item) THEN Built(Return(None), NewEntryElement)
    ELSE EntryUpdate(NewEntryElement, item, TRUE)

\* obj.update(item) and cls(item), dispatched on the class
Update(obj, item, positional) ==
    CASE obj.cls = "KanjiElement" -> KanjiUpdate(obj, item, positional)
      [] obj.cls = "ReadingElement" -> ReadingUpdate(obj, item, positional)
      [] obj.cls = "LanguageSourceElement" ->
            LanguageSourceUpdate(obj, item, positional)
      [] obj.cls = "GlossaryElement" -> GlossaryUpdate(obj, item, positional)
      [] obj.cls = "SenseElement" -> SenseUpdate(obj, item, positional)
      [] obj.cls = "EntryElement" -> EntryUpdate(obj, item, positional)

Construct(cls, item) ==
    CASE cls = "KanjiElement" -> KanjiElement(item)
      [] cls = "ReadingElement" -> ReadingElement(item)
      [] cls = "LanguageSourceElement" -> LanguageSourceElement(item)
      [] cls = "GlossaryElement" -> GlossaryElement(item)
      [] cls = "SenseElement" -> SenseElement(item)
      [] cls = "EntryElement" -> EntryElement(item)

(***************************************************************************)
(* The match predicates of SenseElement and EntryElement.  Each loop       *)
(* returns True at the first element whose match_value is true; an         *)
(* exception raised by an element before that propagates.                  *)
(***************************************************************************)
HitAt(rs, f) ==
    IF f = 0 THEN Return(FALSE)
    ELSE IF rs[f].kind = "raise" THEN rs[f] ELSE Return(TRUE)

AnyMatch(rs) ==
    HitAt(rs, Least({i \in 1..Len(rs) :
                       rs[i].kind = "raise"
                       \/ (rs[i].kind = "return" /\ rs[i].val)}))

match_kanji(entry, value, exact, case_sensitive) ==
    AnyMatch([i \in 1..Len(entry.kanji) |->
                 match_value(entry.kanji[i], value, exact, case_sensitive)])

match_reading(entry, value, exact, case_sensitive) ==
    AnyMatch([i \in 1..Len(entry.reading) |->
                 match_value(entry.reading[i], value, exact, case_sensitive)])

sense_match_glossary(sense, value, exact, case_sensitive) ==
    AnyMatch([i \in 1..Len(sense.glossary) |->
                 match_value(sense.glossary[i], value, exact, case_sensitive)])

match_glossary(entry, value, exact, case_sensitive) ==
    AnyMatch([i \in 1..Len(entry.sense) |->
                 sense_match_glossary(entry.sense[i], value, exact,
                                      case_sensitive)])

\* Python truth of an optional string: None and "" are false
Truthy(o) == ~IsNone(o) /\ Val(o) # <<>>

\* Python objects a call may return where its caller expects another type
PyBool(b) == [type |-> "bool", value |-> b]
ValueErrorObject == [type |-> "ValueError", msg |-> "Query input required."]
IsTrue(o) == IF o.type = "bool" THEN o.value ELSE TRUE

\* `if kanji and self.match_kanji(kanji): return True`, and so on for the
\* reading and the glossary, given the outcomes k, r, g of the three tests
FirstTrue(k, r, g) ==
    IF k.kind = "raise" THEN k
    ELSE IF k.val THEN Return(PyBool(TRUE))
    ELSE IF r.kind = "raise" THEN r
    ELSE IF r.val THEN Return(PyBool(TRUE))
    ELSE IF g.kind = "raise" THEN g
    ELSE Return(PyBool(g.val))

\* a match that compares the texts as they are written
match_case_sensitive(entry, kanji, reading, glossary) ==
    IF ~(Truthy(kanji) \/ Truthy(reading) \/ Truthy(glossary))
    THEN Return(ValueErrorObject)
    ELSE FirstTrue(IF Truthy(kanji)
                   THEN match_kanji(entry, Val(kanji), FALSE, TRUE)
                   ELSE Return(FALSE),
                   IF Truthy(reading)
                   THEN match_reading(entry, Val(reading), FALSE, TRUE)
                   ELSE Return(FALSE),
                   IF Truthy(glossary)
                   THEN match_glossary(entry, Val(glossary), FALSE, TRUE)
                   ELSE Return(FALSE))

\* EntryElement.match: the criteria are tried in the order kanji, reading,
\* glossary; with none given it RETURNS a ValueError object
match(entry, kanji, reading, glossary) ==
    IF ~(Truthy(kanji) \/ Truthy(reading) \/ Truthy(glossary))
    THEN Return(ValueErrorObject)
    ELSE FirstTrue(IF Truthy(kanji)
                   THEN match_kanji(entry, Val(kanji), FALSE, FALSE)
                   ELSE Return(FALSE),
                   IF Truthy(reading)
                   THEN match_reading(entry, Val(reading), FALSE, FALSE)
                   ELSE Return(FALSE),
                   IF Truthy(glossary)
                   THEN match_glossary(entry, Val(glossary), FALSE, FALSE)
                   ELSE Return(FALSE))

(***************************************************************************)
(* The JMDict container.                                                   *)
(***************************************************************************)
JMDict(entries) == [type |-> "JMDict", entries |-> entries]

count(jm) == Len(jm.entries)

\* the while loop of JMDict.filter; i counts the entries already scanned,
\* and FilterStep is the loop's body given the outcome m of entry.match
RECURSIVE FilterLoop(_, _, _, _, _, _, _)
RECURSIVE FilterStep(_, _, _, _, _, _, _, _)
FilterStep(entries, i, results, limit, kanji, reading, glossary, m) ==
    IF m.kind = "raise" THEN m
    ELSE FilterLoop(entries, i + 1,
                    IF IsTrue(m.val) THEN Append(results, entries[i + 1])
                    ELSE results,
                    limit, kanji, reading, glossary)

FilterLoop(entries, i, results, limit, kanji, reading, glossary) ==
    IF i < Len(entries) /\ Len(results) <= limit
    THEN FilterStep(entries, i, results, limit, kanji, reading, glossary,
                    match(entries[i + 1], kanji, reading, glossary))
    ELSE Return(JMDict(results))

\* a filter whose scan stops as soon as `limit` results are collected
filter_stops_at_limit(jm, kanji, reading, glossary, limit) ==
    IF ~(Truthy(kanji) \/ Truthy(reading) \/ Truthy(glossary))
    THEN Return(ValueErrorObject)
    ELSE FilterLoop(jm.entries, 0, <<>>,
                    IF IsNone(limit) \/ Val(limit) < 0
                    THEN Len(jm.entries) ELSE Val(limit) - 1,
                    kanji, reading, glossary)

\* JMDict.filter; limit is an optional integer.  With no criterion given it
\* RETURNS a ValueError object.
filter(jm, kanji, reading, glossary, limit) ==
    IF ~(Truthy(kanji) \/ Truthy(reading) \/ Truthy(glossary))
    THEN Return(ValueErrorObject)
    ELSE FilterLoop(jm.entries, 0, <<>>,
                    IF IsNone(limit) \/ Val(limit) < 0
                    THEN Len(jm.entries) ELSE Val(limit),
                    kanji, reading, glossary)

(***************************************************************************)
(* as_text.  A rendered text is a sequence of atoms: the characters of the *)
(* values and the literal pieces of the format strings.                    *)
(***************************************************************************)
\* sep.join of the first k sequences of ss
RECURSIVE JoinTo(_, _, _)
JoinTo(ss, sep, k) ==
    IF k = 0 THEN <<>>
    ELSE IF k = 1 THEN ss[1]
    ELSE JoinTo(ss, sep, k - 1) \o sep \o ss[k]

Join(seqs, sep) == JoinTo(seqs, sep, Len(seqs))

\* str(n) for n >= 0
RECURSIVE Str(_)
Str(n) ==
    IF n < 10 THEN <<Digits[n + 1]>>
    ELSE Str(n \div 10) \o <<Digits[(n % 10) + 1]>>

\* f"{x}" and repr(x)
FormatText(o) == IF IsNone(o) THEN <<"None">> ELSE Val(o)
FormatInt(o) == IF IsNone(o) THEN <<"None">> ELSE Str(Val(o))
ReprText(t) == <<"'">> \o t \o <<"'">>
ReprOpt(o) == IF IsNone(o) THEN <<"None">> ELSE ReprText(Val(o))
ReprList(l) ==
    <<"[">> \o Join([i \in 1..Len(l) |-> ReprText(l[i])], <<", ">>) \o <<"]">>
ReprDict(d) ==
    <<"{">> \o Join([i \in 1..Len(d) |->
                        ReprText(<<d[i][1]>>) \o <<": ">> \o ReprOpt(d[i][2])],
                    <<", ">>) \o <<"}">>

kanji_as_text(k) ==
    FormatText(k.value) \o <<" (info: ">> \o ReprList(k.info)
    \o <<", priority: ">> \o ReprList(k.priority) \o <<")">>

reading_as_text(r) ==
    FormatText(r.value) \o <<" (no_kanji: ">> \o FormatText(r.no_kanji)
    \o <<", reading: ">> \o ReprList(r.reading)
    \o <<", info: ">> \o ReprList(r.info)
    \o <<", priority: ">> \o ReprList(r.priority) \o <<")">>

\* LanguageSourceElement.as_text and GlossaryElement.as_text
attrs_as_text(e) ==
    FormatText(e.value) \o <<" (attrs: ">> \o ReprDict(e.attrs) \o <<")">>

SUB_ELEMENTS ==
    <<"kanji", "reading", "xref", "antonym", "part_of_speech", "field",
      "misc", "info", "dialect", "language_src", "glossary">>

\* what SenseElement.as_text writes to the buffer it is given: for each
\* sub-element its heading and one line per item
Indent(n) == [i \in 1..n |-> "\t"]

SenseItem(sub_el, val, indent_level) ==
    Indent(indent_level + 1) \o <<"- ">>
    \o (IF sub_el \in {"language_src", "glossary"}
        THEN attrs_as_text(val) ELSE val)
    \o <<"\n">>

SenseSub(sense, sub_el, indent_level) ==
    Indent(indent_level) \o <<".", sub_el, ":\n">>
    \o Flatten([i \in 1..Len(sense[sub_el]) |->
                   SenseItem(sub_el, sense[sub_el][i], indent_level)])

sense_as_text(sense, indent_level) ==
    Flatten([i \in 1..Len(SUB_ELEMENTS) |->
                SenseSub(sense, SUB_ELEMENTS[i], indent_level)])

entry_as_text(entry) ==
    <<"Entry (">> \o FormatInt(entry.sequence) \o <<"):\n">>
    \o <<"\t> Kanji(s):\n">>
    \o Flatten([i \in 1..Len(entry.kanji) |->
                   <<"\t\t- ">> \o kanji_as_text(entry.kanji[i]) \o <<"\n">>])
    \o <<"\n">>
    \o <<"\t> Reading(s):\n">>
    \o Flatten([i \in 1..Len(entry.reading) |->
                   <<"\t\t- ">> \o reading_as_text(entry.reading[i])
                   \o <<"\n">>])
    \o <<"\n">>
    \o <<"\t> Sense(s):\n">>
    \o Flatten([i \in 1..Len(entry.sense) |->
                   <<"\t--- ">> \o Str(i) \o <<" ---\n">>
                   \o sense_as_text(entry.sense[i], 2)])

\* Python truth of an optional integer: None and 0 are false
TruthyInt(o) == ~IsNone(o) /\ Val(o) # 0

\* lst[start:end]: a negative index counts from the end, and every index
\* is clamped to 0..len(lst)
Clamp(i, n) ==
    IF i < 0 THEN (IF i + n < 0 THEN 0 ELSE i + n)
    ELSE IF i > n THEN n ELSE i

PySlice(lst, start, end) ==
    SubSeq(lst,
           (IF IsNone(start) THEN 0 ELSE Clamp(Val(start), Len(lst))) + 1,
           IF IsNone(end) THEN Len(lst) ELSE Clamp(Val(end), Len(lst)))

\* the entries JMDict.as_text selects once its range check has passed
Selected(jm, start, end) ==
    IF ~IsNone(start) /\ ~IsNone(end)
    THEN PySlice(jm.entries, start, end)
    ELSE IF TruthyInt(start) /\ IsNone(end)
    THEN PySlice(jm.entries, start, None)
    ELSE IF IsNone(start) /\ TruthyInt(end)
    THEN PySlice(jm.entries, None, end)
    ELSE jm.entries

\* the loop `for entry in entries: entry.as_text(buffer)`
Rendered(entries) ==
    Flatten([i \in 1..Len(entries) |-> entry_as_text(entries[i])])

\* an as_text whose range check lets start = len(entries) through
jmdict_as_text_start_gt(jm, start, end) ==
    IF (~IsNone(start) /\ Val(start) > Len(jm.entries))
       \/ (~IsNone(end) /\ Val(end) > Len(jm.entries))
    THEN Raise("IndexError", "Index out of range.")
    ELSE Return(Rendered(Selected(jm, start, end)))

\* JMDict.as_text(start, end), with no buffer given
jmdict_as_text(jm, start, end) ==
    IF (~IsNone(start) /\ Val(start) >= Len(jm.entries))
       \/ (~IsNone(end) /\ Val(end) > Len(jm.entries))
    THEN Raise("IndexError", "Index out of range.")
    ELSE Return(Rendered(Selected(jm, start, end)))

(***************************************************************************)
(* Loading and the JMDictEngine queries.                                   *)
(***************************************************************************)
Entries(ns) == List([i \in 1..Len(ns) |-> EntryElement(Some(ns[i]))])

\* the list a loop of EntryElement constructors leaves, or the exception
\* of the first that raises (the entries built before it are lost)
Collected(results) ==
    IF FirstRaise(results) # 0 THEN LoopOutcome(results)
    ELSE Return(Appended(results))

\* a loader that loses the last entry of the document
read_xml_soup_drops_last(item) ==
    IF IsNone(item)
    THEN Raise("ValueError", "Received None value as input.")
    ELSE IF Collected(Entries(find_all(Val(item), "entry"))).kind = "raise"
    THEN Collected(Entries(find_all(Val(item), "entry")))
    ELSE Return(SubSeq(Collected(Entries(find_all(Val(item), "entry"))).val,
                       1, Len(find_all(Val(item), "entry")) - 1))

\* JMDict._read_xml_soup
read_xml_soup(item) ==
    IF IsNone(item)
    THEN Raise("ValueError", "Received None value as input.")
    ELSE Collected(Entries(find_all(Val(item), "entry")))

\* JMDict.from_soup
Wrapped(r) == IF r.kind = "raise" THEN r ELSE Return(JMDict(r.val))
from_soup(soup) == Wrapped(read_xml_soup(soup))

\* JMDictEngine.all
all(engine_soup) == from_soup(Some(engine_soup))

\* re.compile(value).search(text), for a pattern of literal characters and
\* the wildcard "."
ReSearch(pattern, text) ==
    \E i \in 0..(Len(text) - Len(pattern)) :
        \A j \in 1..Len(pattern) : pattern[j] = "." \/ pattern[j] = text[i + j]

\* Tag.string: the single string of the tag, or of its single child tag
RECURSIVE TagString(_)
TagString(n) ==
    IF n.text # <<>> /\ n.children = <<>> THEN Some(n.text)
    ELSE IF n.text = <<>> /\ Len(n.children) = 1 THEN TagString(n.children[1])
    ELSE None

\* find_all(name, string=re.compile(value)): those of the paths whose node
\* has a string that the pattern is found in
StringFound(value, string) == ~IsNone(string) /\ ReSearch(value, Val(string))
RECURSIVE WithString(_, _, _)
WithString(soup, paths, value) ==
    IF paths = <<>> THEN <<>>
    ELSE (IF StringFound(value, TagString(NodeAt(soup, Head(paths))))
          THEN <<Head(paths)>> ELSE <<>>)
         \o WithString(soup, Tail(paths), value)

\* ele.find_parent("entry") as a node, None when there is no such ancestor
NodeOf(soup, p) == IF IsNone(p) THEN None ELSE Some(NodeAt(soup, Val(p)))
Parents(soup, leaves) ==
    List([i \in 1..Len(leaves) |->
             EntryElement(NodeOf(soup, find_parent(soup, leaves[i], "entry")))])

\* the loop shared by search_kanji, search_reading and search_glossary:
\* one EntryElement per matching leaf, built from the leaf's entry
Search(soup, name, value) ==
    Wrapped(Collected(Parents(soup,
                              WithString(soup, FindAllPaths(soup, <<>>, name),
                                         value))))

\* a search that drops the repeats of an entry
RECURSIVE Distinct(_)
Distinct(lst) ==
    IF lst = <<>> THEN <<>>
    ELSE IF \E i \in 1..(Len(lst) - 1) : lst[i] = lst[Len(lst)]
    THEN Distinct(SubSeq(lst, 1, Len(lst) - 1))
    ELSE Append(Distinct(SubSeq(lst, 1, Len(lst) - 1)), lst[Len(lst)])

search_kanji_distinct(soup, value) ==
    IF Search(soup, "keb", value).kind = "raise"
    THEN Search(soup, "keb", value)
    ELSE Return(JMDict(Distinct(Search(soup, "keb", value).val.entries)))

search_kanji(soup, value) == Search(soup, "keb", value)
search_reading(soup, value) == Search(soup, "reb", value)
search_glossary(soup, value) == Search(soup, "gloss", value)

(***************************************************************************)
(* Sample nodes.  Attribute values are strings, held as Some(text) so that *)
(* a dictionary's values are all optional texts.                           *)
(***************************************************************************)
KEle(keb, infs, pris) ==
    Elem("k_ele", <<Leaf("keb", keb)>>
                  \o [i \in 1..Len(infs) |-> Leaf("ke_inf", infs[i])]
                  \o [i \in 1..Len(pris) |-> Leaf("ke_pri", pris[i])])
REle(reb, restrs, infs, pris) ==
    Elem("r_ele", <<Leaf("reb", reb)>>
                  \o [i \in 1..Len(restrs) |-> Leaf("re_restr", restrs[i])]
                  \o [i \in 1..Len(infs) |-> Leaf("re_inf", infs[i])]
                  \o [i \in 1..Len(pris) |-> Leaf("re_pri", pris[i])])
Gloss(text) == Leaf("gloss", text)
Sense(glosses) ==
    Elem("sense", <<Leaf("pos", <<"a">>)>>
                  \o [i \in 1..Len(glosses) |-> Gloss(glosses[i])])

KanjiNodes ==
    { KEle(<<"a", "b">>, << <<"a">>, <<"b">> >>, << <<"A">> >>),
      KEle(<<"A">>, <<>>, << <<"a">>, <<"b">> >>),
      Elem("k_ele", <<Leaf("ke_pri", <<"a">>)>>) }         \* no keb
ReadingNodes ==
    { REle(<<"a">>, << <<"a">>, <<"b">> >>, << <<"b">> >>,
           << <<"A">>, <<"b">> >>),
      REle(<<"b">>, << <<"a">>, <<"a">> >>, <<>>, <<>>),
      Elem("r_ele", <<Leaf("reb", <<"A">>), Leaf("re_nokanji", <<>>)>>),
      Elem("r_ele", <<Leaf("re_restr", <<"a">>)>>) }       \* no reb
GlossNodes ==
    { Gloss(<<"a", "b">>),
      LeafA("gloss", <<"b">>, << <<"g_type", Some(<<"a">>)>>,
                                 <<"xml:lang", Some(<<"b">>)>> >>) }
LanguageSourceNodes ==
    { LeafA("lsource", <<"a">>, << <<"ls_wasei", Some(<<"b">>)>> >>),
      Leaf("lsource", <<>>) }
SenseNodes ==
    { Elem("sense", <<Leaf("stagk", <<"a">>), Leaf("pos", <<"b">>),
                      LeafA("lsource", <<"a">>,
                            << <<"xml:lang", Some(<<"b">>)>> >>),
                      Gloss(<<"a">>), Gloss(<<"A", "b">>)>>) }

\* the entries the sample documents are made of
Entry1 ==
    Elem("entry", <<Leaf("ent_seq", <<"1">>),
                    KEle(<<"A", "b">>, <<>>, <<>>),
                    REle(<<"a">>, <<>>, <<>>, <<>>),
                    Sense(<< <<"b">> >>)>>)
Entry2 ==
    Elem("entry", <<Leaf("ent_seq", <<"2">>),
                    KEle(<<"a">>, << <<"b">> >>, <<>>),
                    KEle(<<"a", "b">>, <<>>, <<>>),
                    REle(<<"b">>, <<>>, <<>>, <<>>),
                    REle(<<"b", "A">>, <<>>, <<>>, <<>>),
                    Sense(<< <<"a">> >>),
                    Sense(<< <<"A", "b">>, <<"b">> >>)>>)
Entry3 ==
    Elem("entry", <<Leaf("ent_seq", <<"1", "0">>),
                    REle(<<"A">>, <<>>, <<>>, <<>>),
                    Sense(<< <<"A", "b">> >>)>>)
Entry4 ==
    Elem("entry", <<KEle(<<"b">>, <<>>, <<>>),
                    REle(<<"a", "a">>, <<>>, <<>>, <<>>),
                    Sense(<< <<"b">> >>)>>)
EntryNodes == {Entry1, Entry2, Entry3, Entry4}

BuildNodes ==
    KanjiNodes \cup ReadingNodes \cup GlossNodes \cup LanguageSourceNodes
    \cup SenseNodes \cup {Entry2, Entry4}
    \cup {Elem("entry", <<Leaf("ent_seq", <<"a">>)>>)}     \* not a number

BuildItems == {None} \cup {Some(n) : n \in BuildNodes}

(***************************************************************************)
(* The builders: an element is constructed, with or without a node, and    *)
(* updated from nodes.  Every update appends to the object's lists, so the *)
(* calls stop once a list is longer than MaxItems.                         *)
(***************************************************************************)
ListFields(cls) ==
    CASE cls = "KanjiElement" -> {"info", "priority"}
      [] cls = "ReadingElement" -> {"reading", "info", "priority"}
      [] cls = "LanguageSourceElement" -> {}
      [] cls = "GlossaryElement" -> {}
      [] cls = "SenseElement" ->
            {"kanji", "reading", "xref", "antonym", "part_of_speech", "field",
             "misc", "info", "dialect", "language_src", "glossary"}
      [] cls = "EntryElement" -> {"kanji", "reading", "sense"}

BuildInit ==
    /\ xml_soup = NoSoup
    /\ self \in {New(c) : c \in Classes}
    /\ args = [cls |-> self.cls, item |-> None, positional |-> TRUE]
    /\ op = ""
    /\ ret = NoCall

\* obj = cls(item)
ConstructCall ==
    \E cls \in Classes, item \in BuildItems :
        \E b \in {Construct(cls, item)} :
            /\ self' = b.obj
            /\ ret' = b.out
            /\ args' = [cls |-> cls, item |-> item, positional |-> TRUE]
            /\ op' = "construct"
            /\ UNCHANGED xml_soup

\* obj.update(item) or obj.update(item=item)
UpdateCall ==
    /\ \A f \in ListFields(self.cls) : Len(self[f]) <= MaxItems
    /\ \E item \in BuildItems, positional \in BOOLEAN :
        \E b \in {Update(self, item, positional)} :
            /\ self' = b.obj
            /\ ret' = b.out
            /\ args' = [cls |-> self.cls, item |-> item,
                        positional |-> positional]
            /\ op' = "update"
            /\ UNCHANGED xml_soup

BuildNext == ConstructCall \/ UpdateCall

SpecBuild == BuildInit /\ [][BuildNext]_vars

\* the texts of the node's children with the given tag name, in order
ChildTexts(item, name) ==
    LET cs == SelectSeq(item.children, LAMBDA c : c.name = name)
    IN  [i \in 1..Len(cs) |-> cs[i].text]

(***************************************************************************)
(* C8: every builder collects each repeated child tag into a list equal to *)
(* the sequence of that tag's child texts in document order: a built       *)
(* ReadingForm's restriction, info and priority lists are the texts of the *)
(* node's re_restr, re_inf and re_pri children, and a built KanjiForm's    *)
(* info and priority lists those of its ke_inf and ke_pri children.        *)
(***************************************************************************)
C8_RepeatedChildrenInOrder ==
    (op = "construct" /\ ret.kind = "return" /\ ~IsNone(args.item)) =>
        LET item == Val(args.item)
        IN  /\ args.cls = "ReadingElement" =>
                 /\ self.reading = ChildTexts(item, "re_restr")
                 /\ self.info = ChildTexts(item, "re_inf")
                 /\ self.priority = ChildTexts(item, "re_pri")
            /\ args.cls = "KanjiElement" =>
                 /\ self.info = ChildTexts(item, "ke_inf")
                 /\ self.priority = ChildTexts(item, "ke_pri")

(***************************************************************************)
(* C9: a builder (constructor or update) called on a node whose tag name   *)
(* differs from the builder's tag fails with the tag-mismatch error,       *)
(* whatever the node holds, and leaves every attribute of the object as it *)
(* was before the call (as the constructor set it, for a constructor).     *)
(***************************************************************************)
TagMismatch == Raise("ValueError", "Tag name mismatched")

C9_TagMismatchLeavesObject ==
    [][ (/\ op' \in {"construct", "update"}
         /\ ~IsNone(args'.item)
         /\ Val(args'.item).name # TagOf(args'.cls))
        => /\ ret' = TagMismatch
           /\ op' = "update" => self' = self
           /\ op' = "construct" => self' = New(args'.cls) ]_vars

\* an update with the wrong node was refused on an object that an earlier
\* call had filled
C9_Witness ==
    /\ op = "update"
    /\ ~IsNone(args.item)
    /\ Val(args.item).name # TagOf(self.cls)
    /\ ret = TagMismatch
    /\ self # New(self.cls)

(***************************************************************************)
(* Documents: a root holding a jmdict element of some of the sample        *)
(* entries, in any order and with repeats.                                 *)
(***************************************************************************)
BoundedSeq(S, n) == UNION {[1..k -> S] : k \in 0..n}

Soup(entries) == Elem("[document]", <<Elem("jmdict", entries)>>)

DocsOf(n) == {Soup(es) : es \in BoundedSeq(EntryNodes, n)}

Docs == DocsOf(MaxDocEntries)

\* the entry elements of a document, read off the jmdict element's children
DocEntries(soup) ==
    SelectSeq(soup.children[1].children, LAMBDA c : c.name = "entry")

\* the entry object the builder makes of an entry node
EntryOf(node) == EntryElement(Some(node)).obj

\* regular expressions given to the searches
Patterns == {<<>>, <<"a">>, <<"b">>, <<".", "b">>}

(***************************************************************************)
(* The engine: constructed on a document, then queried.                    *)
(***************************************************************************)
Init ==
    /\ xml_soup \in Docs
    /\ self = [type |-> "JMDictEngine"]
    /\ args \in [value : Patterns]
    /\ op = ""
    /\ ret = NoCall

All ==
    /\ op' = "all"
    /\ ret' = all(xml_soup)
    /\ UNCHANGED <<xml_soup, self, args>>

SearchKanji ==
    /\ op' = "search_kanji"
    /\ ret' = search_kanji(xml_soup, args.value)
    /\ UNCHANGED <<xml_soup, self, args>>

SearchReading ==
    /\ op' = "search_reading"
    /\ ret' = search_reading(xml_soup, args.value)
    /\ UNCHANGED <<xml_soup, self, args>>

SearchGlossary ==
    /\ op' = "search_glossary"
    /\ ret' = search_glossary(xml_soup, args.value)
    /\ UNCHANGED <<xml_soup, self, args>>

Next == All \/ SearchKanji \/ SearchReading \/ SearchGlossary

Spec == Init /\ [][Next]_vars

(***************************************************************************)
(* C7: the container the loader returns has count() equal to the number of *)
(* entry elements of the document, and its i-th entry is built from the    *)
(* i-th entry element in document order.                                   *)
(***************************************************************************)
C7_LoadKeepsCountAndOrder ==
    op = "all" =>
        /\ ret.kind = "return"
        /\ ret.val.type = "JMDict"
        /\ count(ret.val) = Len(DocEntries(xml_soup))
        /\ \A i \in 1..Len(DocEntries(xml_soup)) :
              ret.val.entries[i] = EntryOf(DocEntries(xml_soup)[i])

\* a document of two different entries was loaded
C7_Witness ==
    /\ op = "all"
    /\ ret.kind = "return"
    /\ count(ret.val) = 2
    /\ ret.val.entries[1].sequence = Some(10)
    /\ ret.val.entries[2].sequence = Some(2)

(***************************************************************************)
(* C10: search_kanji / search_reading / search_glossary return one Entry   *)
(* per keb / reb / gloss leaf whose text the query is found in, in         *)
(* document order: an Entry with k such leaves appears exactly k times, an *)
(* Entry with none does not appear.                                        *)
(***************************************************************************)
PatternFound(pattern, text) ==
    \E i \in 1..(Len(text) - Len(pattern) + 1) :
        LET w == SubSeq(text, i, i + Len(pattern) - 1)
        IN  \A j \in 1..Len(pattern) : pattern[j] \in {".", w[j]}

\* the texts of the leaves of one kind under an entry node
LeafTexts(entry, group, leaf) ==
    LET gs == SelectSeq(entry.children, LAMBDA c : c.name = group)
    IN  Flatten([i \in 1..Len(gs) |-> ChildTexts(gs[i], leaf)])

Hits(entry, group, leaf, pattern) ==
    LET ts == LeafTexts(entry, group, leaf)
    IN  Cardinality({i \in 1..Len(ts) : PatternFound(pattern, ts[i])})

OnePerLeaf(group, leaf) ==
    LET es == DocEntries(xml_soup)
    IN  /\ ret.kind = "return"
        /\ ret.val.entries =
              Flatten([i \in 1..Len(es) |->
                         Repeat(EntryOf(es[i]),
                                Hits(es[i], group, leaf, args.value))])

C10_SearchOnePerMatchingLeaf ==
    /\ op = "search_kanji" => OnePerLeaf("k_ele", "keb")
    /\ op = "search_reading" => OnePerLeaf("r_ele", "reb")
    /\ op = "search_glossary" => OnePerLeaf("sense", "gloss")

\* one entry with two matching keb leaves came back twice, after an entry
\* with none
C10_Witness ==
    /\ op = "search_kanji"
    /\ args.value = <<"a">>
    /\ DocEntries(xml_soup) = <<Entry4, Entry2>>
    /\ ret.kind = "return"
    /\ ret.val.entries = <<EntryOf(Entry2), EntryOf(Entry2)>>

(***************************************************************************)
(* JMDict.filter as a function of the container and its arguments.         *)
(***************************************************************************)
\* the containers loaded from documents of at most MaxEntries entries
Containers == {all(d).val : d \in DocsOf(MaxEntries)}

Queries == {None, Some(<<>>), Some(<<"a">>), Some(<<"a", "B">>)}

Limits == {None} \cup {Some(l) : l \in (-1)..MaxLimit}

FilterInit ==
    /\ xml_soup = NoSoup
    /\ self \in Containers
    /\ args \in [kanji : Queries, reading : Queries, glossary : Queries,
                 limit : Limits]
    /\ op = ""
    /\ ret = NoCall

Filter ==
    /\ op' = "filter"
    /\ ret' = filter(self, args.kanji, args.reading, args.glossary, args.limit)
    /\ UNCHANGED <<xml_soup, self, args>>

FilterNext == Filter

SpecFilter == FilterInit /\ [][FilterNext]_vars

(***************************************************************************)
(* C1: filter called with kanji, reading and glossary all omitted fails    *)
(* with a ValueError raised to the caller, whatever the container holds    *)
(* and whatever the limit: it never returns a value.                       *)
(***************************************************************************)
C1_FilterWithoutCriteriaRaises ==
    (op = "filter" /\ IsNone(args.kanji) /\ IsNone(args.reading)
                   /\ IsNone(args.glossary))
        => ret.kind = "raise" /\ ret.exc = "ValueError"

\* the query is found in the value, case ignored
FoundIgnoringCase(query, value) ==
    \E i \in 1..(Len(value) - Len(query) + 1) :
        \A j \in 1..Len(query) :
            LowerChar(query[j]) = LowerChar(value[i + j - 1])

EntryMatches(entry, which, query) ==
    CASE which = "kanji" ->
            \E i \in 1..Len(entry.kanji) :
                FoundIgnoringCase(query, Val(entry.kanji[i].value))
      [] which = "reading" ->
            \E i \in 1..Len(entry.reading) :
                FoundIgnoringCase(query, Val(entry.reading[i].value))
      [] which = "glossary" ->
            \E i \in 1..Len(entry.sense) :
                \E j \in 1..Len(entry.sense[i].glossary) :
                    FoundIgnoringCase(query,
                                      Val(entry.sense[i].glossary[j].value))

Criteria == {"kanji", "reading", "glossary"}

\* the entries of the receiver, in its order, that match at least one of
\* the criteria `given`
Matching(given) ==
    SelectSeq(self.entries,
              LAMBDA e : \E c \in given : EntryMatches(e, c, Val(args[c])))

(***************************************************************************)
(* C2 as stated: with at least one criterion provided and no limit, the    *)
(* result is exactly the subsequence, in the receiver's order, of the      *)
(* entries matching at least one provided criterion (the criterion is a    *)
(* case-insensitive substring of one of the entry's values of that kind).  *)
(***************************************************************************)
C2_FilterAnyProvidedCriterion ==
    LET provided == {c \in Criteria : ~IsNone(args[c])}
    IN  (op = "filter" /\ provided # {} /\ IsNone(args.limit))
            => ret = Return(JMDict(Matching(provided)))

(***************************************************************************)
(* C2 amended: a criterion counts as provided when it is a non-empty       *)
(* string (an empty string is treated as omitted).  With at least one such *)
(* criterion and no limit, the result is exactly the subsequence, in the   *)
(* receiver's order, of the entries matching at least one of them.         *)
(***************************************************************************)
NonEmptyCriteria == {c \in Criteria : Truthy(args[c])}

C2_FilterAnyNonEmptyCriterion ==
    (op = "filter" /\ NonEmptyCriteria # {} /\ IsNone(args.limit))
        => ret = Return(JMDict(Matching(NonEmptyCriteria)))

\* two criteria were given; the first entry matches only the kanji, the
\* second neither, the third only the glossary (in another case)
C2_Witness ==
    /\ op = "filter"
    /\ args = [kanji |-> Some(<<"a", "B">>), reading |-> Some(<<>>),
               glossary |-> Some(<<"a">>), limit |-> None]
    /\ self.entries = <<EntryOf(Entry1), EntryOf(Entry4), EntryOf(Entry3)>>
    /\ ret = Return(JMDict(<<EntryOf(Entry1), EntryOf(Entry3)>>))

(***************************************************************************)
(* C3: with a non-negative limit L the scan stops once L+1 results are     *)
(* collected: the result is the first min(L+1, m) matching entries in      *)
(* receiver order, m being the number of matching entries, so never more   *)
(* than L+1 entries; with the limit omitted or negative all m are          *)
(* returned.                                                               *)
(***************************************************************************)
Min(a, b) == IF a <= b THEN a ELSE b

C3_FilterLimit ==
    (op = "filter" /\ NonEmptyCriteria # {}) =>
        LET M == Matching(NonEmptyCriteria)
            m == Len(M)
        IN  /\ ret.kind = "return"
            /\ ret.val.type = "JMDict"
            /\ IF ~IsNone(args.limit) /\ Val(args.limit) >= 0
               THEN /\ ret.val.entries
                          = SubSeq(M, 1, Min(Val(args.limit) + 1, m))
                    /\ count(ret.val) <= Val(args.limit) + 1
               ELSE ret.val.entries = M

\* limit 0 cut three matching entries down to the first one
C3_Witness ==
    /\ op = "filter"
    /\ args.limit = Some(0)
    /\ NonEmptyCriteria # {}
    /\ Len(Matching(NonEmptyCriteria)) = 3
    /\ ret.kind = "return"
    /\ count(ret.val) = 1

(***************************************************************************)
(* JMDict.as_text and JMDict.count as functions of the container and the   *)
(* arguments.                                                              *)
(***************************************************************************)
Indices == {None} \cup {Some(i) : i \in (0 - MaxNegative)..(MaxEntries + 2)}

TextInit ==
    /\ xml_soup = NoSoup
    /\ self \in Containers
    /\ args \in [start : Indices, end : Indices]
    /\ op = ""
    /\ ret = NoCall

AsText ==
    /\ op' = "as_text"
    /\ ret' = jmdict_as_text(self, args.start, args.end)
    /\ UNCHANGED <<xml_soup, self, args>>

Count ==
    /\ op' = "count"
    /\ ret' = Return(count(self))
    /\ UNCHANGED <<xml_soup, self, args>>

TextNext == AsText \/ Count

SpecText == TextInit /\ [][TextNext]_vars

IndexError == Raise("IndexError", "Index out of range.")

(***************************************************************************)
(* C5 as stated: as_text(start, end) on n entries fails with IndexError    *)
(* whenever a provided start is not in 0..n-1 or a provided end is not in  *)
(* 0..n, negative values included, and does not fail with IndexError when  *)
(* every provided bound is inside that range.                              *)
(***************************************************************************)
C5_AsTextIndexErrorOutsideRange ==
    op = "as_text" =>
        LET n == Len(self.entries)
        IN  ret = IndexError
            <=> \/ (~IsNone(args.start) /\ Val(args.start) \notin 0..(n - 1))
                \/ (~IsNone(args.end) /\ Val(args.end) \notin 0..n)

(***************************************************************************)
(* C5 amended: as_text(start, end) on n entries fails with IndexError      *)
(* exactly when a provided start is at least n or a provided end is        *)
(* greater than n; a negative bound is not rejected.  Otherwise it returns *)
(* a text.                                                                 *)
(***************************************************************************)
C5_AsTextIndexErrorPastEnd ==
    op = "as_text" =>
        LET n == Len(self.entries)
            past == \/ (~IsNone(args.start) /\ Val(args.start) >= n)
                    \/ (~IsNone(args.end) /\ Val(args.end) > n)
        IN  /\ past => ret = IndexError
            /\ ~past => ret.kind = "return"

\* a start past the end was refused, and so was start = n
C5_Witness ==
    /\ op = "as_text"
    /\ Len(self.entries) = 2
    /\ args.start = Some(2)
    /\ args.end = None
    /\ ret = IndexError

(***************************************************************************)
(* C6: for every in-range start and end (start defaulting to 0, end to the *)
(* entry count n), as_text(start, end) returns the concatenation of the    *)
(* renderings of exactly the entries at indices start..end-1, in order; a  *)
(* provided end of 0 renders no entry.                                     *)
(***************************************************************************)
C6_AsTextRendersRange ==
    LET n == Len(self.entries)
        lo == IF IsNone(args.start) THEN 0 ELSE Val(args.start)
        hi == IF IsNone(args.end) THEN n ELSE Val(args.end)
    IN  (op = "as_text" /\ lo \in 0..(n - 1) /\ hi \in 0..n)
            => LET es == SubSeq(self.entries, lo + 1, hi)
               IN  ret = Return(Flatten([i \in 1..Len(es) |->
                                           entry_as_text(es[i])]))

(***************************************************************************)
(* match_value as a pure function: the element's value and the arguments   *)
(* are drawn at the start, the action applies it.                          *)
(***************************************************************************)
MatchInit ==
    /\ xml_soup = NoSoup
    /\ self \in {[NewKanjiElement EXCEPT !.value = o] :
                    o \in {None} \cup {Some(s) : s \in Strings(MaxLen)}}
    /\ args \in [value : Strings(MaxLen), exact : BOOLEAN,
                 case_sensitive : BOOLEAN]
    /\ op = ""
    /\ ret = NoCall

MatchValue ==
    /\ op' = "match_value"
    /\ ret' = match_value(self, args.value, args.exact, args.case_sensitive)
    /\ UNCHANGED <<xml_soup, self, args>>

MatchNext == MatchValue

SpecMatch == MatchInit /\ [][MatchNext]_vars

(***************************************************************************)
(* C4: match_value(query, exact, case_sensitive) on an element with text   *)
(* value v returns true iff (exact and query' = v') or (not exact and      *)
(* query' is a contiguous substring of v'), where query' and v' are both   *)
(* lower-cased when case_sensitive is false and both unchanged otherwise.  *)
(***************************************************************************)
Fold(s, cs) == IF cs THEN s ELSE Lower(s)

IsSubstring(q, v) ==
    \E pre, post \in Strings(Len(v)) : pre \o q \o post = v

C4_MatchValue ==
    (op = "match_value" /\ ~IsNone(self.value)) =>
        LET q == Fold(args.value, args.case_sensitive)
            v == Fold(Val(self.value), args.case_sensitive)
        IN  /\ ret.kind = "return"
            /\ ret.val <=> \/ (args.exact /\ q = v)
                           \/ (~args.exact /\ IsSubstring(q, v))

\* the spec's example shape: a capitalised query against a longer
\* lower-case value is found as a substring when case is folded
C4_Witness ==
    /\ op = "match_value"
    /\ self.value = Some(<<"a", "b">>)
    /\ args.value = <<"A">>
    /\ ~args.exact /\ ~args.case_sensitive
    /\ ret = Return(TRUE)

=============================================================================
